---- MODULE Spec2Model ----
(***************************************************************************)
(* State-machine model of the BMC code-management daemon:                  *)
(*   ItemUpdater (item_updater.cpp): the version / activation registry,    *)
(*     erase, deleteAll, freeSpace, freePriority, resetUbootEnvVars;       *)
(*   Activation and RedundancyPriority (activation.cpp): the activation    *)
(*     state machine and the priority setters;                             *)
(*   minimum_ship_level (msl_verify): compare and verify.                  *)
(* Every method is an operator from an updater record to an updater record *)
(* (the object's fields plus the persisted stores it writes); every action *)
(* of Next is one externally triggered call, run to completion on the      *)
(* single dispatch context.                                                *)
(***************************************************************************)
EXTENDS Integers, Sequences, FiniteSets, TLC

-----------------------------------------------------------------------------
(* Bounds of the model *)

\* Version ids 1..NumIds stand for the hash-derived id strings, ordered as
\* std::map orders the strings.
NumIds == 4

Ids == 1..NumIds

\* The number of operations a behaviour runs after construction.
MaxOps == 5

-----------------------------------------------------------------------------
(* Program constants *)

\* The id of the version the BMC is running (Version::isFunctional() is true
\* of the entry whose version string equals the one in /etc/os-release).
FunctionalId == 2

\* The empty id string of a default-constructed std::string.
NoVersion == 0

\* A null redundancyPriority / a missing persisted priority.
NoPriority == -1

\* std::numeric_limits<uint8_t>::max()
MaxPriority == 255

\* The width of uint8_t arithmetic.
PriorityModulus == 256

\* A null activationProgress.
NoProgress == -1

\* The sort value freeSpace gives an activation without priority.
FailedSortPriority == 999

\* ACTIVE_BMC_MAX_ALLOWED values of the builds that are modelled.
ActiveMaxValues == {1, 2, 3}

\* The flash layouts: STATIC_LAYOUT completes the write inside the call,
\* UBIFS_LAYOUT / MMC_LAYOUT report completion by systemd unit signals.
Layouts == {"static", "ubi"}

Builds == [layout : Layouts, maxAllowed : ActiveMaxValues]

\* Priority values an operator writes to the Priority property.
PriorityInputs == {0, MaxPriority}

\* The priorities discovery gives the mounted images: the value restorePriority
\* reads back or, without one, 0 for the running image and 255 for another;
\* two mounted images have different ones.
RestoredPriorities == {0, 1, MaxPriority}

\* The ids that may have a mounted read-only volume at construction.
MountedIds == {FunctionalId, FunctionalId + 1}

RequestedValues == {"None", "Active"}

\* The ids under which an image with a bad signature is uploaded.
UnsignedIds == {4}

\* The ids under which a host BIOS image is uploaded.
HostIds == {4}

-----------------------------------------------------------------------------
(* Version strings and the minimum ship level *)

\* A version string is modelled by the three digit groups the MSL regex
\* extracts from it (match[2], match[3], match[4]), each a sequence of decimal
\* digits; the empty tuple is the empty string.
VersionString(id) == <<<<2>>, <<id>>, <<0>>>>

FunctionalVersion == VersionString(FunctionalId)

\* BMC_MSL of the modelled build.
BMC_MSL == <<<<2>>, <<2>>, <<0>>>>

\* Variant: the revision is not compared.
compareWithoutRev(versionToCompare, mslVersion) ==
    IF versionToCompare[1] > mslVersion[1] THEN 1
    ELSE IF versionToCompare[1] < mslVersion[1] THEN -1
    ELSE IF versionToCompare[2] > mslVersion[2] THEN 1
    ELSE IF versionToCompare[2] < mslVersion[2] THEN -1
    ELSE 0

compare(versionToCompare, mslVersion) ==
    IF versionToCompare[1] > mslVersion[1] THEN 1
    ELSE IF versionToCompare[1] < mslVersion[1] THEN -1
    ELSE IF versionToCompare[2] > mslVersion[2] THEN 1
    ELSE IF versionToCompare[2] < mslVersion[2] THEN -1
    ELSE IF versionToCompare[3] > mslVersion[3] THEN 1
    ELSE IF versionToCompare[3] < mslVersion[3] THEN -1
    ELSE 0

\* The decimal digits of the largest int: std::stoi throws std::out_of_range
\* for a numeral that denotes more.
IntMaxDigits == <<2, 1, 4, 7, 4, 8, 3, 6, 4, 7>>

\* A non-empty string in which regex_search finds no match of REGEX_BMC_MSL.
NoMatchString == <<-1>>

\* The digit groups a version string may carry (each a sequence of decimal
\* digits), and the version strings: the empty string, a string without a
\* match, and every string with a match.
DigitGroups ==
    {<<0>>, <<1>>, <<2>>, IntMaxDigits, <<2, 1, 4, 7, 4, 8, 3, 6, 4, 8>>}

VersionStrings ==
    {<<>>, NoMatchString} \cup (DigitGroups \X DigitGroups \X DigitGroups)

\* std::stoi(str) throws: the numeral is longer than the largest int, or as
\* long and after it digit by digit.
StoiThrows(str) ==
    \/ Len(str) > Len(IntMaxDigits)
    \/ /\ Len(str) = Len(IntMaxDigits)
       /\ \E k \in 1..Len(str) :
             /\ str[k] > IntMaxDigits[k]
             /\ \A j \in 1..(k - 1) : str[j] = IntMaxDigits[j]

\* std::stoi of a digit group throws in minimum_ship_level::parse.
Throws(inpVersion) ==
    /\ Len(inpVersion) = 3
    /\ \E k \in 1..3 : StoiThrows(inpVersion[k])

\* std::stoi of a digit group in the range of int.
RECURSIVE stoi(_)
stoi(str) ==
    IF str = <<>> THEN 0
    ELSE 10 * stoi(SubSeq(str, 1, Len(str) - 1)) + str[Len(str)]

\* minimum_ship_level::parse: outVersion, when std::stoi does not throw.
parse(inpVersion) ==
    IF Len(inpVersion) # 3 THEN <<0, 0, 0>>
    ELSE <<stoi(inpVersion[1]), stoi(inpVersion[2]), stoi(inpVersion[3])>>

\* The body of minimum_ship_level::verify in a build whose BMC_MSL is msl:
\* whether an exception leaves it and, if none does, the value returned.
verifyMsl(msl, versionManifest) ==
    IF msl = <<>> THEN [thrown |-> FALSE, rc |-> TRUE]
    ELSE IF Throws(msl) \/ Throws(versionManifest) THEN [thrown |-> TRUE]
    ELSE [thrown |-> FALSE,
          rc |-> compare(parse(versionManifest), parse(msl)) >= 0]

\* minimum_ship_level::verify in the modelled build.
verify(versionManifest) == verifyMsl(BMC_MSL, versionManifest).rc

-----------------------------------------------------------------------------
(* State *)

VARIABLES
    build,           \* the build configuration, fixed at construction
    versions,        \* ItemUpdater::versions     : id -> Version object
    activations,     \* ItemUpdater::activations  : id -> Activation object
    assocs,          \* ItemUpdater::assocs       : vector of (kind, path)
    persistPriority, \* PERSIST_DIR/<id>/priority (storePriority)
    persistPurpose,  \* PERSIST_DIR/<id>/purpose  (storePurpose)
    envPriority,     \* helper.setEntry / clearEntry: boot-env priority entries
    bootTarget,      \* helper.updateUbootVersionId: the boot-env pointer
    volumes,         \* ids that have a flashed read-only volume
    evicted,         \* the ids the last operation's freeSpace erased, in order
    lastOp,          \* the last operation: its kind, its arguments, a note
    opCount,         \* the number of operations run since construction
    signatureVerify, \* WANT_SIGNATURE_VERIFY, fixed at construction
    hostBiosUpgrade, \* HOST_BIOS_UPGRADE, fixed at construction
    fieldMode,       \* control::FieldMode::fieldModeEnabled()
    posted,          \* ids whose erase onStateChangesBios has posted
    stale,           \* posted ids whose Activation object is destroyed
    mslCall          \* a call of minimum_ship_level: inputs and outcome

vars == <<build, versions, activations, assocs, persistPriority,
          persistPurpose, envPriority, bootTarget, volumes, evicted, lastOp,
          opCount, signatureVerify, hostBiosUpgrade, fieldMode, posted, stale,
          mslCall>>

\* The updater object together with the stores it writes, as one value. `log`
\* collects, in order, the calls an operation makes on the stores.
Updater ==
    [versions |-> versions, activations |-> activations, assocs |-> assocs,
     persistPriority |-> persistPriority, persistPurpose |-> persistPurpose,
     envPriority |-> envPriority, bootTarget |-> bootTarget,
     volumes |-> volumes, log |-> <<>>, evicted |-> <<>>,
     posted |-> posted, stale |-> stale]

Entry(op, id, value) == [op |-> op, id |-> id, value |-> value]

Logged(u, op, id, value) == [u EXCEPT !.log = Append(@, Entry(op, id, value))]

Without(f, id) == [i \in (DOMAIN f) \ {id} |-> f[i]]

isFunctional(u, id) == u.versions[id].version = FunctionalVersion

HasPriority(u, id) ==
    /\ id \in DOMAIN u.activations
    /\ u.activations[id].redundancyPriority # NoPriority

-----------------------------------------------------------------------------
(* Storage helper and serialization (collaborators of the orchestrator) *)

storePriority(u, versionId, value) ==
    Logged([u EXCEPT !.persistPriority[versionId] = value],
           "storePriority", versionId, value)

storePurpose(u, versionId, purpose) ==
    Logged([u EXCEPT !.persistPurpose[versionId] = purpose],
           "storePurpose", versionId, 0)

removePersistDataDirectory(u, versionId) ==
    Logged([u EXCEPT !.persistPriority[versionId] = NoPriority,
                     !.persistPurpose[versionId] = "none"],
           "removePersistDataDirectory", versionId, 0)

helper_setEntry(u, versionId, value) ==
    Logged([u EXCEPT !.envPriority[versionId] = value],
           "setEntry", versionId, value)

helper_clearEntry(u, versionId) ==
    Logged([u EXCEPT !.envPriority[versionId] = NoPriority],
           "clearEntry", versionId, 0)

helper_removeVersion(u, versionId) ==
    Logged([u EXCEPT !.volumes = @ \ {versionId}],
           "removeVersion", versionId, 0)

helper_updateUbootVersionId(u, versionId) ==
    Logged([u EXCEPT !.bootTarget = versionId],
           "updateUbootVersionId", versionId, 0)

helper_cleanup(u) == Logged(u, "cleanup", NoVersion, 0)

flashWrite(u, versionId) ==
    Logged([u EXCEPT !.volumes = @ \cup {versionId}],
           "flashWrite", versionId, 0)

-----------------------------------------------------------------------------
(* ItemUpdater: priorities and the boot target *)

savePriority(u, versionId, value) ==
    helper_setEntry(storePriority(u, versionId, value), versionId, value)

sdbusPriority(u, versionId, value) ==
    [savePriority(u, versionId, value)
        EXCEPT !.activations[versionId].redundancyPriority = value]

updateUbootEnvVars(u, versionId) == helper_updateUbootVersionId(u, versionId)

\* Variant: the volume of the version is left in place.
removeReadOnlyPartitionSkipped(u, versionId) == u

removeReadOnlyPartition(u, versionId) == helper_removeVersion(u, versionId)

\* The loop of resetUbootEnvVars over the activations map, from id i on.
RECURSIVE ResetScan(_, _, _, _)
ResetScan(u, i, lowestPriority, lowestPriorityVersion) ==
    IF i > NumIds THEN lowestPriorityVersion
    ELSE IF ~HasPriority(u, i)
         THEN ResetScan(u, i + 1, lowestPriority, lowestPriorityVersion)
    ELSE IF u.activations[i].redundancyPriority <= lowestPriority
         THEN ResetScan(u, i + 1, u.activations[i].redundancyPriority, i)
    ELSE ResetScan(u, i + 1, lowestPriority, lowestPriorityVersion)

resetUbootEnvVars(u) ==
    updateUbootEnvVars(u, ResetScan(u, 1, MaxPriority, NoVersion))

-----------------------------------------------------------------------------
(* ItemUpdater::freePriority *)

\* The ids freePriority puts in priorityMap: the requested version and every
\* activation that holds a redundancyPriority.
PriorityHolders(u, versionId) ==
    {versionId} \cup {i \in DOMAIN u.activations : HasPriority(u, i)}

\* priorityMap: the requested pair is inserted first, so a later insert of the
\* same id is ignored.
PriorityMap(u, value, versionId) ==
    [i \in PriorityHolders(u, versionId) |->
        IF i = versionId THEN value
        ELSE u.activations[i].redundancyPriority]

\* prioritySet: the pairs in ascending priority. The comparator is <=, which
\* is no strict weak ordering, so the order of pairs of equal priority is
\* whatever the library's tree insertion makes of it: `tie` (a permutation of
\* the ids) is that order.
Rank(tie, id) == CHOOSE k \in 1..NumIds : tie[k] = id

PrioritySet(pm, tie) ==
    SortSeq(SelectSeq(tie, LAMBDA i : i \in DOMAIN pm),
            LAMBDA a, b : \/ pm[a] < pm[b]
                          \/ pm[a] = pm[b] /\ Rank(tie, a) < Rank(tie, b))

\* The loop over prioritySet, from its k-th element on. ++freePriorityValue
\* is uint8_t arithmetic.
RECURSIVE FreeWalk(_, _, _, _, _, _)
FreeWalk(u, pm, prioritySet, k, freePriorityValue, versionId) ==
    IF k > Len(prioritySet) THEN u
    ELSE IF prioritySet[k] = versionId
         THEN FreeWalk(u, pm, prioritySet, k + 1, freePriorityValue, versionId)
    ELSE IF pm[prioritySet[k]] = freePriorityValue
         THEN FreeWalk(sdbusPriority(u, prioritySet[k],
                                     (freePriorityValue + 1) % PriorityModulus),
                       pm, prioritySet, k + 1,
                       (freePriorityValue + 1) % PriorityModulus, versionId)
    ELSE FreeWalk(u, pm, prioritySet, k + 1, freePriorityValue, versionId)

freePriority(u, value, versionId, tie) ==
    LET pm == PriorityMap(u, value, versionId)
        prioritySet == PrioritySet(pm, tie)
        walked == FreeWalk(u, pm, prioritySet, 1, value, versionId)
        lowestVersion == IF value = pm[prioritySet[1]] THEN versionId
                         ELSE prioritySet[1]
    IN  updateUbootEnvVars(walked, lowestVersion)

\* The orders of equal-priority pairs an action may meet. The loop bumps, of
\* the pairs of one priority, only the first that is not the requested one,
\* and the boot target is the first pair of all, so an order matters only by
\* which id comes first among equals: the orders "first, then the other ids
\* ascending" and "first, then the other ids descending" give every choice of
\* a first id in each of two groups of equals. When no two activations hold
\* the same priority the order of ties decides nothing (the only possible tie
\* is with the requested version, which the loop skips).
FirstThen(first, ascending) ==
    [k \in Ids |->
        IF k = 1 THEN first
        ELSE LET rest == Ids \ {first}
                 below(i) == Cardinality({j \in rest : j < i})
                 above(i) == Cardinality({j \in rest : j > i})
             IN  CHOOSE i \in rest :
                    (IF ascending THEN below(i) ELSE above(i)) = k - 2]

TieOrders ==
    IF \E i, j \in DOMAIN activations :
          /\ i # j
          /\ activations[i].redundancyPriority # NoPriority
          /\ activations[i].redundancyPriority =
             activations[j].redundancyPriority
    THEN {FirstThen(first, ascending) : first \in Ids, ascending \in BOOLEAN}
    ELSE {[k \in Ids |-> k]}

-----------------------------------------------------------------------------
(* ItemUpdater: associations, erase, deleteAll, freeSpace *)

createActiveAssociation(u, path) ==
    [u EXCEPT !.assocs = Append(@, <<"active", path>>)]

createFunctionalAssociation(u, path) ==
    [u EXCEPT !.assocs = Append(@, <<"functional", path>>)]

createUpdateableAssociation(u, path) ==
    [u EXCEPT !.assocs = Append(@, <<"updateable", path>>)]

removeAssociations(u, path) ==
    [u EXCEPT !.assocs = SelectSeq(@, LAMBDA a : a[2] # path)]

\* Variant: the activation entry is left in the activation map.
EraseActivationKeepsEntry(u, entryId) ==
    IF entryId \notin DOMAIN u.activations THEN u
    ELSE removeAssociations(u, entryId)

\* erase, lines 356-367: the activation entry and its associations go first.
\* Erasing the map entry destroys the Activation object; an erase that object
\* has posted and that has not run yet is left with a dangling `this`.
EraseActivation(u, entryId) ==
    IF entryId \notin DOMAIN u.activations THEN u
    ELSE [removeAssociations(u, entryId)
            EXCEPT !.activations = Without(@, entryId),
                   !.stale = @ \cup (u.posted \cap {entryId})]

\* Variant: the version entry is left in the version map.
EraseVersionKeepsEntry(u, entryId) ==
    removePersistDataDirectory(removeReadOnlyPartition(u, entryId), entryId)

\* erase, lines 370-388: the volume and the persisted data go whether or not
\* the version is found; the version entry goes when it is.
EraseVersion(u, entryId) ==
    LET cleaned == removePersistDataDirectory(
                       removeReadOnlyPartition(u, entryId), entryId)
    IN  IF entryId \in DOMAIN u.versions
        THEN [cleaned EXCEPT !.versions = Without(@, entryId)]
        ELSE cleaned

\* Variant: erase without the refusal of the functional image.
eraseUnguarded(u, entryId) ==
    helper_clearEntry(
        EraseVersion(resetUbootEnvVars(EraseActivation(u, entryId)), entryId),
        entryId)

\* Variant: the refusal comes after the boot pointer is recomputed.
eraseLateRefusal(u, entryId) ==
    IF /\ entryId \in DOMAIN u.versions
       /\ isFunctional(u, entryId)
       /\ build.maxAllowed > 1
    THEN resetUbootEnvVars(u)
    ELSE helper_clearEntry(
             EraseVersion(resetUbootEnvVars(EraseActivation(u, entryId)),
                          entryId),
             entryId)

erase(u, entryId) ==
    IF /\ entryId \in DOMAIN u.versions
       /\ isFunctional(u, entryId)
       /\ build.maxAllowed > 1
    THEN u
    ELSE helper_clearEntry(
             EraseVersion(resetUbootEnvVars(EraseActivation(u, entryId)),
                          entryId),
             entryId)

\* The second loop of deleteAll, over deletableVersions in map order.
RECURSIVE EraseEach(_, _, _)
EraseEach(u, deletableVersions, i) ==
    IF i > NumIds THEN u
    ELSE IF i \in deletableVersions
         THEN EraseEach(erase(u, i), deletableVersions, i + 1)
    ELSE EraseEach(u, deletableVersions, i + 1)

deleteAll(u) ==
    LET deletableVersions ==
            {i \in DOMAIN u.versions : ~isFunctional(u, i)}
    IN  helper_cleanup(EraseEach(u, deletableVersions, 1))

\* What the first loop of freeSpace counts: the Active and Failed activations.
ActiveOrFailed(u) ==
    {i \in DOMAIN u.activations :
        u.activations[i].activation \in {"Active", "Failed"}}

\* Variant: the caller is not left out of the queue.
VersionsPQWithCaller(u, caller) ==
    {<<(IF /\ u.activations[i].activation = "Active"
           /\ u.activations[i].redundancyPriority # NoPriority
        THEN u.activations[i].redundancyPriority
        ELSE FailedSortPriority), i>> :
       i \in {j \in ActiveOrFailed(u) :
                 ~ (isFunctional(u, j) /\ build.maxAllowed > 1)}}

\* versionsPQ after the first loop: (priority, id) of every counted activation
\* that is neither the caller nor (with more than one slot) the functional one.
VersionsPQ(u, caller) ==
    {<<(IF /\ u.activations[i].activation = "Active"
           /\ u.activations[i].redundancyPriority # NoPriority
        THEN u.activations[i].redundancyPriority
        ELSE FailedSortPriority), i>> :
       i \in {j \in ActiveOrFailed(u) :
                 ~ \/ isFunctional(u, j) /\ build.maxAllowed > 1
                   \/ j = caller}}

\* Variant: the queue yields its smallest pair first.
TopOfMinHeap(pq) ==
    CHOOSE t \in pq : \A o \in pq :
        \/ o[1] > t[1]
        \/ o[1] = t[1] /\ o[2] >= t[2]

\* top() of the max-heap of pairs under std::less.
Top(pq) ==
    CHOOSE t \in pq : \A o \in pq :
        \/ o[1] < t[1]
        \/ o[1] = t[1] /\ o[2] <= t[2]

\* The while loop of freeSpace.
RECURSIVE FreeLoop(_, _, _)

\* Variant: the loop runs while count > ACTIVE_BMC_MAX_ALLOWED.
FreeLoopOffByOne(u, versionsPQ, count) ==
    IF count > build.maxAllowed /\ versionsPQ # {}
    THEN FreeLoop([erase(u, Top(versionsPQ)[2])
                      EXCEPT !.evicted = Append(@, Top(versionsPQ)[2])],
                  versionsPQ \ {Top(versionsPQ)}, count - 1)
    ELSE u

FreeLoop(u, versionsPQ, count) ==
    IF count >= build.maxAllowed /\ versionsPQ # {}
    THEN FreeLoop([erase(u, Top(versionsPQ)[2])
                      EXCEPT !.evicted = Append(@, Top(versionsPQ)[2])],
                  versionsPQ \ {Top(versionsPQ)}, count - 1)
    ELSE u

\* Variant: every registered activation is counted, whatever its state.
freeSpaceCountsRegistered(u, caller) ==
    FreeLoop(u, VersionsPQ(u, caller), Cardinality(DOMAIN u.activations))

freeSpace(u, caller) ==
    FreeLoop(u, VersionsPQ(u, caller), Cardinality(ActiveOrFailed(u)))

-----------------------------------------------------------------------------
(* ItemUpdater::createActivation *)

NewActivation(activationState, associations) ==
    [activation |-> activationState,
     requestedActivation |-> "None",
     redundancyPriority |-> NoPriority,
     activationProgress |-> NoProgress,
     activationBlocksTransition |-> FALSE,
     associations |-> associations]

NewVersion(version, purpose) == [version |-> version, purpose |-> purpose]

\* Variant: the lookup in the activation map is left out and the new objects
\* replace the registered ones.
createActivationUnguarded(u, versionId, version, purpose, valid) ==
    IF purpose = "Unknown" THEN u
    ELSE [u EXCEPT
            !.activations = (versionId :>
                IF valid \/ purpose \notin {"BMC", "System"}
                THEN NewActivation("Ready", {"inventory"})
                ELSE NewActivation("Invalid", {})) @@ @,
            !.versions = (versionId :> NewVersion(version, purpose)) @@ @]

\* `valid` is the result of validateSquashFSImage on the uploaded directory.
createActivation(u, versionId, version, purpose, valid) ==
    IF purpose = "Unknown" THEN u
    ELSE IF versionId \in DOMAIN u.activations THEN u
    ELSE [u EXCEPT
            !.activations = @ @@ (versionId :>
                IF valid \/ purpose \notin {"BMC", "System"}
                THEN NewActivation("Ready", {"inventory"})
                ELSE NewActivation("Invalid", {})),
            !.versions = @ @@ (versionId :> NewVersion(version, purpose))]

-----------------------------------------------------------------------------
(* Activation and RedundancyPriority *)

\* softwareServer::Activation::activation(value): the base property setter.
SetActivation(u, versionId, value) ==
    [u EXCEPT !.activations[versionId].activation = value]

\* RedundancyPriority::priority(value): the Priority property setter.
priority(u, versionId, value, tie) ==
    freePriority(
        savePriority(
            [u EXCEPT !.activations[versionId].redundancyPriority = value],
            versionId, value),
        value, versionId, tie)

\* Variant: the priority is persisted and the others are moved, but the new
\* object is not stored in the activation.
NewRedundancyPriorityDropped(u, versionId, value, tie) ==
    freePriority(savePriority(u, versionId, value), value, versionId, tie)

\* std::make_unique<RedundancyPriority>(bus, path, *this, 0): the constructor
\* runs priority(value) before the new object is stored in the activation.
NewRedundancyPriority(u, versionId, value, tie) ==
    [freePriority(savePriority(u, versionId, value), value, versionId, tie)
        EXCEPT !.activations[versionId].redundancyPriority = value]

deleteImageManagerObject(u, versionId) ==
    Logged(u, "deleteImageManagerObject", versionId, 0)

RECURSIVE activation(_, _, _, _)

\* Variant: the "active" association is not created.
onFlashWriteSuccessNotAssociated(u, versionId, tie) ==
    LET u1 == [u EXCEPT
                 !.activations[versionId].activationBlocksTransition = FALSE,
                 !.activations[versionId].activationProgress = NoProgress]
        u2 == storePurpose(u1, versionId, u1.versions[versionId].purpose)
        u3 == IF u2.activations[versionId].redundancyPriority = NoPriority
              THEN NewRedundancyPriority(u2, versionId, 0, tie)
              ELSE u2
        u4 == deleteImageManagerObject(u3, versionId)
        u5 == createUpdateableAssociation(u4, versionId)
    IN  activation(u5, versionId, "Active", tie)

onFlashWriteSuccess(u, versionId, tie) ==
    LET u1 == [u EXCEPT
                 !.activations[versionId].activationBlocksTransition = FALSE,
                 !.activations[versionId].activationProgress = NoProgress]
        u2 == storePurpose(u1, versionId, u1.versions[versionId].purpose)
        u3 == IF u2.activations[versionId].redundancyPriority = NoPriority
              THEN NewRedundancyPriority(u2, versionId, 0, tie)
              ELSE u2
        u4 == deleteImageManagerObject(u3, versionId)
        u5 == createUpdateableAssociation(
                  createActiveAssociation(u4, versionId), versionId)
    IN  activation(u5, versionId, "Active", tie)

\* Activation::verifySignature: Signature::verify on the upload directory of
\* the image.
verifySignature(versionId) == versionId \notin UnsignedIds

\* Activation::flashWriteHost: StartUnit of the host BIOS flash service.
flashWriteHost(u, versionId) == Logged(u, "flashWriteHost", versionId, 0)

\* Variant: the minimum ship level is checked after freeSpace and flashWrite.
startActivatingCheckedLate(u, versionId, tie) ==
    LET u2 == [u EXCEPT
                 !.activations[versionId].activationBlocksTransition = TRUE,
                 !.activations[versionId].activationProgress = 10]
        u3 == flashWrite(freeSpace(u2, versionId), versionId)
    IN  IF ~verify(u.versions[versionId].version)
        THEN SetActivation(u3, versionId, "Failed")
        ELSE IF build.layout = "ubi"
        THEN SetActivation(u3, versionId, "Activating")
        ELSE SetActivation(onFlashWriteSuccess(u3, versionId, tie),
                           versionId, "Active")

\* Activation::activation(Activating) from the minimum ship level check on.
startActivating(u, versionId, tie) ==
    IF ~verify(u.versions[versionId].version)
    THEN SetActivation(u, versionId, "Failed")
    ELSE
      LET u2 == [u EXCEPT
                   !.activations[versionId].activationBlocksTransition = TRUE,
                   !.activations[versionId].activationProgress = 10]
          u3 == flashWrite(freeSpace(u2, versionId), versionId)
      IN  IF build.layout = "ubi"
          THEN SetActivation(u3, versionId, "Activating")
          ELSE SetActivation(onFlashWriteSuccess(u3, versionId, tie),
                             versionId, "Active")

\* Variant: a state other than Activating is entered without releasing the
\* progress object and the blocking guard.
activationKeepsTracker(u, versionId, value, tie) ==
    LET u1 == IF value \notin {"Active", "Activating"}
              THEN [u EXCEPT
                      !.activations[versionId].redundancyPriority = NoPriority]
              ELSE u
    IN  IF value = "Activating"
        THEN IF signatureVerify /\ ~verifySignature(versionId) /\ fieldMode
             THEN SetActivation(u1, versionId, "Failed")
             ELSE IF hostBiosUpgrade /\ u1.versions[versionId].purpose = "Host"
             THEN SetActivation(
                      flashWriteHost(
                          [u1 EXCEPT
                             !.activations[versionId].activationProgress = 20],
                          versionId),
                      versionId, value)
             ELSE startActivating(u1, versionId, tie)
        ELSE SetActivation(u1, versionId, value)

\* Variant: a signature failure ends in Failed whatever the field mode.
activationSignatureRequired(u, versionId, value, tie) ==
    LET u1 == IF value \notin {"Active", "Activating"}
              THEN [u EXCEPT
                      !.activations[versionId].redundancyPriority = NoPriority]
              ELSE u
    IN  IF value = "Activating"
        THEN IF signatureVerify /\ ~verifySignature(versionId)
             THEN SetActivation(u1, versionId, "Failed")
             ELSE startActivating(u1, versionId, tie)
        ELSE SetActivation(
                 [u1 EXCEPT
                    !.activations[versionId].activationBlocksTransition = FALSE,
                    !.activations[versionId].activationProgress = NoProgress],
                 versionId, value)

\* Activation::activation(value): the override that runs the state machine.
activation(u, versionId, value, tie) ==
    LET u1 == IF value \notin {"Active", "Activating"}
              THEN [u EXCEPT
                      !.activations[versionId].redundancyPriority = NoPriority]
              ELSE u
    IN  IF value = "Activating"
        THEN IF signatureVerify /\ ~verifySignature(versionId) /\ fieldMode
             THEN SetActivation(u1, versionId, "Failed")
             ELSE IF hostBiosUpgrade /\ u1.versions[versionId].purpose = "Host"
             THEN SetActivation(
                      flashWriteHost(
                          [u1 EXCEPT
                             !.activations[versionId].activationProgress = 20],
                          versionId),
                      versionId, value)
             ELSE startActivating(u1, versionId, tie)
        ELSE SetActivation(
                 [u1 EXCEPT
                    !.activations[versionId].activationBlocksTransition = FALSE,
                    !.activations[versionId].activationProgress = NoProgress],
                 versionId, value)

\* Variant: every request for Active starts the sequence, whatever the state.
requestedActivationAlways(u, versionId, value, tie) ==
    [(IF value = "Active"
      THEN activation(u, versionId, "Activating", tie)
      ELSE u)
        EXCEPT !.activations[versionId].requestedActivation = value]

\* Variant: an Invalid activation is started like a Ready or Failed one.
requestedActivationFromInvalid(u, versionId, value, tie) ==
    LET u1 == IF /\ value = "Active"
                 /\ u.activations[versionId].requestedActivation # "Active"
                 /\ u.activations[versionId].activation
                        \in {"Ready", "Failed", "Invalid"}
              THEN activation(u, versionId, "Activating", tie)
              ELSE u
    IN  [u1 EXCEPT !.activations[versionId].requestedActivation = value]

requestedActivation(u, versionId, value, tie) ==
    LET u1 == IF /\ value = "Active"
                 /\ u.activations[versionId].requestedActivation # "Active"
                 /\ u.activations[versionId].activation \in {"Ready", "Failed"}
              THEN activation(u, versionId, "Activating", tie)
              ELSE u
    IN  [u1 EXCEPT !.activations[versionId].requestedActivation = value]

\* The name of the systemd unit that flashes the host BIOS image versionId:
\* "obmc-flash-host-bios@" + versionId + ".service".
BiosServiceFile(versionId) == <<"obmc-flash-host-bios", versionId>>

\* The name of the unit whose completion ends the flash write of the BMC image
\* versionId.
FlashWriteUnit(versionId) == <<"flash-write", versionId>>

\* The unit names a JobRemoved signal may carry.
Units == {BiosServiceFile(id) : id \in Ids} \cup {FlashWriteUnit(id) : id \in Ids}

\* Variant: the unit name of the signal is not compared.
onStateChangesBiosAnyUnit(u, versionId, newStateUnit, result, tie) ==
    IF result = "done"
    THEN LET u1 == deleteImageManagerObject(u, versionId)
             u2 == [u1 EXCEPT
                      !.activations[versionId].activationProgress = 100]
             u3 == activation(u2, versionId, "Active", tie)
         IN  [Logged(u3, "biosVersion", versionId, 0)
                 EXCEPT !.posted = @ \cup {versionId}]
    ELSE IF result = "failed"
    THEN activation(u, versionId, "Failed", tie)
    ELSE u

\* Variant: the uploaded image is erased inside the handler.
onStateChangesBiosInline(u, versionId, newStateUnit, result, tie) ==
    IF newStateUnit # BiosServiceFile(versionId) THEN u
    ELSE IF result = "done"
    THEN LET u1 == deleteImageManagerObject(u, versionId)
             u2 == [u1 EXCEPT
                      !.activations[versionId].activationProgress = 100]
             u3 == activation(u2, versionId, "Active", tie)
         IN  erase(Logged(u3, "biosVersion", versionId, 0), versionId)
    ELSE IF result = "failed"
    THEN activation(u, versionId, "Failed", tie)
    ELSE u

\* Activation::onStateChangesBios: a signal for another unit is ignored; for
\* the unit of this activation, on "done" the image is Active, the BIOS
\* version is published and the erase of the uploaded image is posted to the
\* io_context; on "failed" it is Failed.
onStateChangesBios(u, versionId, newStateUnit, result, tie) ==
    IF newStateUnit # BiosServiceFile(versionId) THEN u
    ELSE IF result = "done"
    THEN LET u1 == deleteImageManagerObject(u, versionId)
             u2 == [u1 EXCEPT
                      !.activations[versionId].activationProgress = 100]
             u3 == activation(u2, versionId, "Active", tie)
         IN  [Logged(u3, "biosVersion", versionId, 0)
                 EXCEPT !.posted = @ \cup {versionId}]
    ELSE IF result = "failed"
    THEN activation(u, versionId, "Failed", tie)
    ELSE u

\* Activation::onStateChanges for a BMC image on the layouts that complete
\* out of band: the flash units of this activation have all reported "done"
\* (it then runs onFlashWriteSuccess) or one has reported "failed".
onStateChanges(u, versionId, newStateUnit, result, tie) ==
    IF newStateUnit # FlashWriteUnit(versionId) THEN u
    ELSE IF result = "done" THEN onFlashWriteSuccess(u, versionId, tie)
    ELSE activation(u, versionId, "Failed", tie)

\* Activation::unitStateChange: the handler of the JobRemoved signal.
unitStateChange(u, versionId, newStateUnit, result, tie) ==
    IF u.activations[versionId].activation # "Activating" THEN u
    ELSE IF hostBiosUpgrade /\ u.versions[versionId].purpose = "Host"
    THEN onStateChangesBios(u, versionId, newStateUnit, result, tie)
    ELSE onStateChanges(u, versionId, newStateUnit, result, tie)

-----------------------------------------------------------------------------
(* Construction: ItemUpdater::processBMCImage *)

\* One mounted read-only volume: the Version, the Activation (Active, with the
\* inventory association), its associations and its priority, which is the
\* restored one or the default (created with freePriority = false, that is by
\* sdbusPriority).
RECURSIVE Discover(_, _, _, _)
Discover(u, found, restored, i) ==
    IF i > NumIds THEN u
    ELSE IF i \notin found THEN Discover(u, found, restored, i + 1)
    ELSE
      LET u1 == IF VersionString(i) = FunctionalVersion
                THEN createFunctionalAssociation(u, i) ELSE u
          u2 == createUpdateableAssociation(createActiveAssociation(u1, i), i)
          u3 == [u2 EXCEPT
                   !.versions = @ @@ (i :> NewVersion(VersionString(i), "BMC")),
                   !.activations =
                       @ @@ (i :> NewActivation("Active", {"inventory"}))]
      IN  Discover(sdbusPriority(u3, i, restored[i]), found, restored, i + 1)

EmptyUpdater ==
    [versions |-> <<>>, activations |-> <<>>, assocs |-> <<>>,
     persistPriority |-> [i \in Ids |-> NoPriority],
     persistPurpose |-> [i \in Ids |-> "none"],
     envPriority |-> [i \in Ids |-> NoPriority],
     bootTarget |-> NoVersion, volumes |-> {}, log |-> <<>>,
     evicted |-> <<>>, posted |-> {}, stale |-> {}]

\* `note` says, of an erase, what it directly follows on the same id ("erase",
\* or "registered": the upload notification that registered the id); of a
\* registerImage, whether it registered the id; of a requestedActivation or a
\* unitStateChange, whether it ran onFlashWriteSuccess ("flashed").
Op(op, id, value, note) ==
    [op |-> op, id |-> id, value |-> value, note |-> note]

Flashed(u, versionId) ==
    IF \E k \in 1..Len(u.log) :
          u.log[k] = Entry("storePurpose", versionId, 0)
    THEN "flashed" ELSE "none"

\* The state an operation leaves: the updater it returns and its record.
Effect(u, op) ==
    /\ versions' = u.versions
    /\ activations' = u.activations
    /\ assocs' = u.assocs
    /\ persistPriority' = u.persistPriority
    /\ persistPurpose' = u.persistPurpose
    /\ envPriority' = u.envPriority
    /\ bootTarget' = u.bootTarget
    /\ volumes' = u.volumes
    /\ evicted' = u.evicted
    /\ posted' = u.posted
    /\ stale' = u.stale
    /\ lastOp' = op
    /\ UNCHANGED <<build, signatureVerify, hostBiosUpgrade, fieldMode, mslCall>>

\* One more served operation, while the bound on their number allows it.
Commit(u, op) ==
    /\ opCount < MaxOps
    /\ opCount' = opCount + 1
    /\ Effect(u, op)

\* The images found under MEDIA_DIR: the running one and at most
\* ACTIVE_BMC_MAX_ALLOWED - 1 others, each with a flashed volume and a
\* priority. The boot pointer is the one the previous run's last priority
\* write or erase left: the version of lowest priority.
InitialUpdater(found, restored) ==
    resetUbootEnvVars(Discover(EmptyUpdater, found, restored, 1))

\* No call of minimum_ship_level is followed.
NoCall == [op |-> "none", in |-> <<>>, out |-> <<>>]

Constructed ==
    /\ build \in Builds
    /\ \E found \in SUBSET MountedIds :
         /\ FunctionalId \in found
         /\ Cardinality(found) <= build.maxAllowed
         /\ \E restored \in [found -> RestoredPriorities] :
              /\ \A i, j \in found : i # j => restored[i] # restored[j]
              /\ versions = InitialUpdater(found, restored).versions
              /\ activations = InitialUpdater(found, restored).activations
              /\ assocs = InitialUpdater(found, restored).assocs
              /\ persistPriority =
                     InitialUpdater(found, restored).persistPriority
              /\ persistPurpose =
                     InitialUpdater(found, restored).persistPurpose
              /\ envPriority = InitialUpdater(found, restored).envPriority
              /\ bootTarget = InitialUpdater(found, restored).bootTarget
              /\ volumes = found
    /\ evicted = <<>>
    /\ lastOp = Op("processBMCImage", NoVersion, "none", "none")
    /\ opCount = 0
    /\ posted = {}
    /\ stale = {}

\* A build without signature verification and without host BIOS upgrade.
Init ==
    /\ Constructed
    /\ mslCall = NoCall
    /\ signatureVerify = FALSE
    /\ hostBiosUpgrade = FALSE
    /\ fieldMode = FALSE

\* A build with WANT_SIGNATURE_VERIFY; restoreFieldModeStatus has read the
\* field mode from the boot environment.
InitSigned ==
    /\ Constructed
    /\ mslCall = NoCall
    /\ signatureVerify = TRUE
    /\ hostBiosUpgrade = FALSE
    /\ fieldMode \in BOOLEAN

\* A build with HOST_BIOS_UPGRADE.
InitHost ==
    /\ Constructed
    /\ mslCall = NoCall
    /\ signatureVerify = FALSE
    /\ hostBiosUpgrade = TRUE
    /\ fieldMode = FALSE

-----------------------------------------------------------------------------
(* Operations *)

\* An upload notification for versionId (InterfacesAdded from the image
\* manager); `valid` is what validateSquashFSImage finds in the upload.
RegisterImage(versionId, purpose, valid) ==
    /\ versionId \in Ids
    /\ Commit(createActivation(Updater, versionId, VersionString(versionId),
                               purpose, valid),
              Op("registerImage", versionId, "none",
                 IF purpose # "Unknown" /\ versionId \notin DOMAIN activations
                 THEN "registered" ELSE "none"))

\* The request starts the activation sequence.
Triggers(versionId, value) ==
    /\ value = "Active"
    /\ activations[versionId].requestedActivation # "Active"
    /\ activations[versionId].activation \in {"Ready", "Failed"}

\* The note of a requestedActivation: "flashed" if it ran onFlashWriteSuccess,
\* "repeat" if it asked for Active of an image already Activating or Active,
\* "unsigned" if the sequence stopped at the signature, "msl" if it stopped at
\* the minimum ship level.
RequestNote(versionId, value, tie) ==
    IF Flashed(requestedActivation(Updater, versionId, value, tie), versionId)
          = "flashed"
    THEN "flashed"
    ELSE IF /\ value = "Active"
            /\ activations[versionId].activation \in {"Activating", "Active"}
    THEN "repeat"
    ELSE IF ~Triggers(versionId, value) THEN "none"
    ELSE IF signatureVerify /\ ~verifySignature(versionId) /\ fieldMode
    THEN "unsigned"
    ELSE IF hostBiosUpgrade /\ versions[versionId].purpose = "Host"
    THEN "none"
    ELSE IF ~verify(versions[versionId].version) THEN "msl"
    ELSE "none"

\* A write of the RequestedActivation property of versionId.
RequestActivation(versionId, value) ==
    /\ versionId \in DOMAIN activations
    /\ \E tie \in TieOrders :
         Commit(requestedActivation(Updater, versionId, value, tie),
                Op("requestedActivation", versionId, value,
                   RequestNote(versionId, value, tie)))

\* A write of the Priority property of versionId.
SetPriority(versionId, value) ==
    /\ versionId \in DOMAIN activations
    /\ activations[versionId].redundancyPriority # NoPriority
    /\ \E tie \in TieOrders :
         Commit(priority(Updater, versionId, value, tie),
                Op("setPriority", versionId, "none", "none"))

\* Delete on the version object of entryId, or erase of an id that discovery
\* found corrupted (which need not be registered).
Erase(entryId) ==
    /\ entryId \in Ids
    /\ Commit(erase(Updater, entryId),
              Op("erase", entryId, "none",
                 IF lastOp.id = entryId /\ lastOp.op = "erase" THEN "erase"
                 ELSE IF lastOp.id = entryId /\ lastOp.op = "registerImage"
                      THEN lastOp.note
                 ELSE "none"))

DeleteAll ==
    /\ opCount < MaxOps
    /\ Commit(deleteAll(Updater), Op("deleteAll", NoVersion, "none", "none"))

\* The unit an activation waits for.
OwnUnit(versionId) ==
    IF hostBiosUpgrade /\ versions[versionId].purpose = "Host"
    THEN BiosServiceFile(versionId)
    ELSE FlashWriteUnit(versionId)

\* The JobRemoved signal of its own flash unit reaches the activation of
\* versionId while it is Activating.
UnitStateChange(versionId, result) ==
    /\ versionId \in DOMAIN activations
    /\ activations[versionId].activation = "Activating"
    /\ \/ build.layout = "ubi"
       \/ hostBiosUpgrade /\ versions[versionId].purpose = "Host"
    /\ \E tie \in TieOrders :
         LET r == unitStateChange(Updater, versionId, OwnUnit(versionId),
                                  result, tie)
         IN  Commit(r, Op("unitStateChange", versionId, result,
                          Flashed(r, versionId)))

\* Any other JobRemoved signal reaches the activation of a host BIOS image:
\* one for another unit, or one that arrives while it is not Activating (the
\* signal is broadcast to every activation).
UnitStateChangeOther(versionId, newStateUnit, result) ==
    /\ versionId \in DOMAIN activations
    /\ hostBiosUpgrade /\ versions[versionId].purpose = "Host"
    /\ \/ activations[versionId].activation # "Activating"
       \/ newStateUnit # OwnUnit(versionId)
    /\ \E tie \in TieOrders :
         LET r == unitStateChange(Updater, versionId, newStateUnit, result,
                                  tie)
         IN  Commit(r, Op("unitStateChange", versionId, result,
                          IF r = Updater THEN "ignored" ELSE "handled"))

\* Variant: the property takes whatever value is written.
fieldModeEnabledTwoWay(value) ==
    [fieldMode |-> value,
     units |-> IF value /\ ~fieldMode
               THEN <<"setenv-fieldmode", "stop-usr-local", "mask-usr-local">>
               ELSE <<>>,
     error |-> "none"]

\* ItemUpdater::fieldModeEnabled(value): the new value of the property, the
\* systemd calls made, and the error thrown (elog<NotAllowed> leaves by
\* exception).
fieldModeEnabled(value) ==
    IF value /\ ~fieldMode
    THEN [fieldMode |-> TRUE,
          units |-> <<"setenv-fieldmode", "stop-usr-local", "mask-usr-local">>,
          error |-> "none"]
    ELSE IF ~value /\ fieldMode
    THEN [fieldMode |-> fieldMode, units |-> <<>>, error |-> "NotAllowed"]
    ELSE [fieldMode |-> fieldMode, units |-> <<>>, error |-> "none"]

\* A write of the FieldModeEnabled property.
FieldModeEnabled(value) ==
    /\ opCount < MaxOps
    /\ opCount' = opCount + 1
    /\ fieldMode' = fieldModeEnabled(value).fieldMode
    /\ lastOp' = Op("fieldModeEnabled", NoVersion,
                    IF value THEN "true" ELSE "false",
                    fieldModeEnabled(value).error)
    /\ evicted' = <<>>
    /\ UNCHANGED <<build, versions, activations, assocs, persistPriority,
                   persistPurpose, envPriority, bootTarget, volumes,
                   signatureVerify, hostBiosUpgrade, posted, stale, mslCall>>

\* The io_context runs the erase that onStateChangesBios posted for versionId:
\* this->parent.erase(this->versionId). If the Activation object has been
\* destroyed in the meantime, `this` dangles and the id read through it is
\* any id.
RunPosted(versionId) ==
    /\ versionId \in posted
    /\ UNCHANGED opCount
    /\ \E entryId \in (IF versionId \in stale THEN Ids ELSE {versionId}) :
         Effect(erase([Updater EXCEPT !.posted = @ \ {versionId},
                                      !.stale = @ \ {versionId}],
                      entryId),
                Op("postedErase", entryId, "none",
                   IF versionId \in stale THEN "stale" ELSE "none"))

Next ==
    \/ \E id \in Ids, valid \in BOOLEAN : RegisterImage(id, "BMC", valid)
    \/ RegisterImage(FunctionalId, "Unknown", TRUE)
    \/ \E id \in Ids, value \in RequestedValues : RequestActivation(id, value)
    \/ \E id \in Ids, value \in PriorityInputs : SetPriority(id, value)
    \/ \E id \in Ids : Erase(id)
    \/ DeleteAll
    \/ \E id \in Ids, result \in {"done", "failed"} :
          UnitStateChange(id, result)

NextSigned ==
    \/ Next
    \/ \E value \in BOOLEAN : FieldModeEnabled(value)

NextHost ==
    \/ Next
    \/ \E id \in HostIds : RegisterImage(id, "Host", TRUE)
    \/ \E id \in Ids : RunPosted(id)
    \/ \E id \in HostIds, unit \in Units, result \in {"done", "failed"} :
          UnitStateChangeOther(id, unit, result)

Spec == Init /\ [][Next]_vars

\* The Version structs compare is called with.
Versions == {parse(v) : v \in {w \in VersionStrings : ~Throws(w)}}

\* The calls of minimum_ship_level on their own: the inputs of one call are
\* drawn at the start, next to an updater that stays as constructed, and the
\* call is then made. For verify the inputs are BMC_MSL and the candidate.
InitMsl ==
    /\ Constructed
    /\ build = [layout |-> "static", maxAllowed |-> 1]
    /\ persistPriority[FunctionalId] = 0
    /\ signatureVerify = FALSE
    /\ hostBiosUpgrade = FALSE
    /\ fieldMode = FALSE
    /\ \/ \E a \in Versions, b \in Versions :
            mslCall = [op |-> "compare", in |-> <<a, b>>, out |-> <<>>]
       \/ \E msl \in VersionStrings, versionManifest \in VersionStrings :
            mslCall = [op |-> "verify", in |-> <<msl, versionManifest>>,
                       out |-> <<>>]

Compare ==
    /\ mslCall.op = "compare"
    /\ mslCall.out = <<>>
    /\ mslCall' = [mslCall EXCEPT
                      !.out = <<compare(mslCall.in[1], mslCall.in[2])>>]
    /\ UNCHANGED <<build, versions, activations, assocs, persistPriority,
                   persistPurpose, envPriority, bootTarget, volumes, evicted,
                   lastOp, opCount, signatureVerify, hostBiosUpgrade,
                   fieldMode, posted, stale>>

Verify ==
    /\ mslCall.op = "verify"
    /\ mslCall.out = <<>>
    /\ mslCall' = [mslCall EXCEPT
                      !.out = <<verifyMsl(mslCall.in[1], mslCall.in[2])>>]
    /\ UNCHANGED <<build, versions, activations, assocs, persistPriority,
                   persistPurpose, envPriority, bootTarget, volumes, evicted,
                   lastOp, opCount, signatureVerify, hostBiosUpgrade,
                   fieldMode, posted, stale>>

NextMsl == Compare \/ Verify

SpecMsl == InitMsl /\ [][NextMsl]_vars

SpecSigned == InitSigned /\ [][NextSigned]_vars

SpecHost == InitHost /\ [][NextHost]_vars

\* The io_context runs every handler posted to it. The behaviours checked
\* for progress are those of the build with two slots.
InitHostFair == InitHost /\ build.maxAllowed = 2

SpecHostFair ==
    /\ InitHostFair
    /\ [][NextHost]_vars
    /\ \A id \in HostIds : WF_vars(RunPosted(id))

-----------------------------------------------------------------------------
(* Properties *)

Registered == DOMAIN activations

Holders == {i \in Registered : activations[i].redundancyPriority # NoPriority}

\* The last operation ran freePriority: a write of the Priority property, or
\* the creation of the priority by onFlashWriteSuccess.
FreePriorityRan == lastOp.op = "setPriority" \/ lastOp.note = "flashed"

InSeq(seq, x) == \E k \in 1..Len(seq) : seq[k] = x

\* C1: with ACTIVE_BMC_MAX_ALLOWED > 1, whatever operations have run, the
\* functional version is a key of the version map and of the activation map.
C1_FunctionalNeverRemoved ==
    build.maxAllowed > 1 =>
        /\ FunctionalId \in DOMAIN versions
        /\ FunctionalId \in DOMAIN activations

\* C1 witness: freeSpace has just evicted images and deleteAll or an erase
\* could follow; the functional version is still there.
C1_Witness ==
    /\ build.maxAllowed > 1
    /\ evicted # <<>>
    /\ FunctionalId \in DOMAIN versions
    /\ FunctionalId \in DOMAIN activations

\* C2 (as claimed): the boot-environment pointer names a registered version in
\* every state.
C2_BootTargetRegistered == bootTarget \in DOMAIN versions

\* C3 (as claimed): after an operation that ran freePriority no two
\* activations hold the same priority.
C3_NoSharedPriority ==
    FreePriorityRan =>
        \A i, j \in Holders :
            i # j => activations[i].redundancyPriority #
                     activations[j].redundancyPriority

\* C4 (as claimed): after an operation that ran freePriority the boot target
\* is a version whose priority is the minimum of the priorities held.
C4_BootTargetIsLowest ==
    FreePriorityRan =>
        /\ bootTarget \in Holders
        /\ \A j \in Holders : activations[bootTarget].redundancyPriority <=
                              activations[j].redundancyPriority

\* C5: from every reachable state and for every registered caller, freeSpace
\* erases neither the caller nor, with ACTIVE_BMC_MAX_ALLOWED > 1, the
\* functional image.
C5_FreeSpaceSparesCallerAndFunctional ==
    \A caller \in Registered :
        LET freed == freeSpace(Updater, caller)
        IN  /\ ~InSeq(freed.evicted, caller)
            /\ caller \in DOMAIN freed.activations
            /\ caller \in DOMAIN freed.versions
            /\ build.maxAllowed > 1 =>
                  /\ ~InSeq(freed.evicted, FunctionalId)
                  /\ FunctionalId \in DOMAIN freed.activations
                  /\ FunctionalId \in DOMAIN freed.versions

\* C5 witness: an activation request whose freeSpace evicted an image; the
\* caller and the functional image are both still registered.
C5_Witness ==
    /\ lastOp.op = "requestedActivation"
    /\ evicted # <<>>
    /\ lastOp.id \in Registered
    /\ build.maxAllowed > 1
    /\ FunctionalId \in Registered
    /\ lastOp.id # FunctionalId

\* The activations from which Activation::activation(Activating) reaches the
\* call of freeSpace.
FreeSpaceCallers ==
    {i \in Registered :
        /\ activations[i].activation \in {"Ready", "Failed"}
        /\ verify(versions[i].version)}

\* C6 (as claimed): whenever an eviction candidate exists, freeSpace returns
\* with fewer Active-or-Failed images than ACTIVE_BMC_MAX_ALLOWED.
C6_CountBelowMaximum ==
    \A caller \in FreeSpaceCallers :
        VersionsPQ(Updater, caller) # {} =>
            Cardinality(ActiveOrFailed(freeSpace(Updater, caller)))
                < build.maxAllowed

\* C6 (amended): freeSpace returns (the evaluation of its loop ends) with
\* fewer Active-or-Failed images other than the caller than
\* ACTIVE_BMC_MAX_ALLOWED, and it has stopped either below the maximum or with
\* every candidate erased.
C6_CountBesidesCallerBelowMaximum ==
    \A caller \in FreeSpaceCallers :
        /\ Cardinality(ActiveOrFailed(freeSpace(Updater, caller)) \ {caller})
              < build.maxAllowed
        /\ \/ Cardinality(ActiveOrFailed(freeSpace(Updater, caller)))
                 < build.maxAllowed
           \/ VersionsPQ(freeSpace(Updater, caller), caller) = {}

\* C6 witness: a Failed image about to be retried, for which freeSpace
\* evicts a candidate and returns with the caller counted and the count at the
\* maximum.
C6_Witness ==
    \E caller \in FreeSpaceCallers :
        /\ activations[caller].activation = "Failed"
        /\ VersionsPQ(Updater, caller) # {}
        /\ freeSpace(Updater, caller).evicted # <<>>
        /\ Cardinality(ActiveOrFailed(freeSpace(Updater, caller)))
              = build.maxAllowed

\* The scenario of C7: ACTIVE_BMC_MAX_ALLOWED = 2, a is functional and Active
\* with priority 0, b is Active with priority 1, c is Failed, and d is a
\* registered image ready to be activated.
Scenario7(a, b, c, d) ==
    /\ build.maxAllowed = 2
    /\ Registered = {a, b, c, d}
    /\ DOMAIN versions = {a, b, c, d}
    /\ Cardinality({a, b, c, d}) = 4
    /\ isFunctional(Updater, a)
    /\ activations[a].activation = "Active"
    /\ activations[a].redundancyPriority = 0
    /\ activations[b].activation = "Active"
    /\ activations[b].redundancyPriority = 1
    /\ activations[c].activation = "Failed"
    /\ activations[d].activation = "Ready"
    /\ activations[d].requestedActivation = "None"
    /\ verify(versions[d].version)

\* C7 (as claimed): in the scenario, activating d evicts c and nothing else; a
\* and b stay registered and freeSpace leaves their activations as they were.
C7_OnlyFailedEvicted ==
    (build.maxAllowed = 2 /\ Cardinality(Registered) = 4) =>
        \A a, b, c, d \in Registered :
            Scenario7(a, b, c, d) =>
                \A tie \in TieOrders :
                    LET activated ==
                            requestedActivation(Updater, d, "Active", tie)
                        freed == freeSpace(Updater, d)
                    IN  /\ activated.evicted = <<c>>
                        /\ c \notin DOMAIN activated.activations
                        /\ {a, b} \subseteq DOMAIN activated.activations
                        /\ {a, b} \subseteq DOMAIN freed.activations
                        /\ freed.activations[a] = activations[a]
                        /\ freed.activations[b] = activations[b]

\* C7 (amended): in the scenario, activating d evicts c first and then b; c
\* and b are removed from both maps, a and d stay registered, and freeSpace
\* leaves the activation of a as it was.
C7_FailedThenLowestEvicted ==
    (build.maxAllowed = 2 /\ Cardinality(Registered) = 4) =>
        \A a, b, c, d \in Registered :
            Scenario7(a, b, c, d) =>
                \A tie \in TieOrders :
                    LET activated ==
                            requestedActivation(Updater, d, "Active", tie)
                        freed == freeSpace(Updater, d)
                    IN  /\ activated.evicted = <<c, b>>
                        /\ DOMAIN activated.activations = {a, d}
                        /\ DOMAIN activated.versions = {a, d}
                        /\ freed.evicted = <<c, b>>
                        /\ DOMAIN freed.activations = {a, d}
                        /\ freed.activations[a] = activations[a]

\* C7 witness: the state after activating d in the scenario (c is the image
\* below the minimum ship level, which is how it had Failed).
C7_Witness ==
    /\ build.maxAllowed = 2
    /\ lastOp.op = "requestedActivation"
    /\ lastOp.value = "Active"
    /\ evicted = <<1, 3>>
    /\ Registered = {FunctionalId, lastOp.id}
    /\ lastOp.id = 4
    /\ activations[FunctionalId].activation = "Active"

\* C8: with ACTIVE_BMC_MAX_ALLOWED > 1, erase of a registered functional
\* version returns the updater as it found it: no map, relation, store or
\* pointer changes and no helper call is logged.
C8_FunctionalEraseRefused ==
    \A id \in DOMAIN versions :
        (isFunctional(Updater, id) /\ build.maxAllowed > 1) =>
            erase(Updater, id) = Updater

\* C8 witness: erase has just been called on the functional version and it is
\* still registered.
C8_Witness ==
    /\ build.maxAllowed > 1
    /\ lastOp.op = "erase"
    /\ lastOp.id = FunctionalId
    /\ FunctionalId \in DOMAIN versions
    /\ FunctionalId \in DOMAIN activations
    /\ bootTarget \in DOMAIN versions

\* erase(id) is not refused in updater u.
EraseProceeds(u, id) ==
    ~ (id \in DOMAIN u.versions /\ isFunctional(u, id)
       /\ build.maxAllowed > 1)

\* What a second erase of id does to an updater u the first erase has left.
SecondEraseKeepsState(u, id) ==
    LET second == erase(u, id)
    IN  /\ second.versions = u.versions
        /\ second.activations = u.activations
        /\ second.assocs = u.assocs
        /\ second.bootTarget = u.bootTarget

\* The helper calls of an erase that finds neither activation nor version.
DefensiveCleanup(u, id) ==
    << Entry("updateUbootVersionId", u.bootTarget, 0),
       Entry("removeVersion", id, 0),
       Entry("removePersistDataDirectory", id, 0),
       Entry("clearEntry", id, 0) >>

\* C9 (as claimed): for every id, a second erase directly after the first
\* leaves the maps, the relation set and the boot target as the first left
\* them, and it recomputes the boot pointer and calls the volume,
\* persisted-data and entry cleanups for the id.
C9_SecondEraseAlwaysCleans ==
    \A id \in Ids :
        LET first == erase(Updater, id)
        IN  /\ SecondEraseKeepsState(first, id)
            /\ erase([first EXCEPT !.log = <<>>], id).log
                  = DefensiveCleanup(first, id)

\* C9 (amended): for every id, a second erase directly after the first leaves
\* the maps, the relation set and the boot target as the first left them;
\* when the erase is not refused the second call recomputes the boot pointer
\* and calls the volume, persisted-data and entry cleanups for the id, and
\* when it is refused (the functional image with ACTIVE_BMC_MAX_ALLOWED > 1)
\* the second call makes no helper call at all.
C9_EraseIdempotent ==
    \A id \in Ids :
        LET first == erase(Updater, id)
        IN  /\ SecondEraseKeepsState(first, id)
            /\ erase([first EXCEPT !.log = <<>>], id).log
                  = IF EraseProceeds(Updater, id)
                    THEN DefensiveCleanup(first, id)
                    ELSE <<>>

\* C9 witness: two erases of one id in a row have run and the id is gone.
C9_Witness ==
    /\ lastOp.op = "erase"
    /\ lastOp.note = "erase"
    /\ lastOp.id \notin DOMAIN versions
    /\ lastOp.id \notin DOMAIN activations

\* C10: for an id that is not registered, registering a valid image under it
\* and then erasing it restores the version map, the activation map and the
\* relation set.
C10_RegisterEraseRoundTrip ==
    \A id \in Ids \ (DOMAIN activations \cup DOMAIN versions) :
        \A valid \in BOOLEAN :
            LET registered == createActivation(Updater, id, VersionString(id),
                                               "BMC", valid)
                erased == erase(registered, id)
            IN  /\ id \in DOMAIN registered.versions
                /\ id \in DOMAIN registered.activations
                /\ erased.versions = versions
                /\ erased.activations = activations
                /\ erased.assocs = assocs

\* C10 witness: an erase directly after the registration of the same,
\* previously unregistered id.
C10_Witness ==
    /\ lastOp.op = "erase"
    /\ lastOp.note = "registered"
    /\ lastOp.id \notin DOMAIN versions
    /\ lastOp.id \notin DOMAIN activations

\* C11: in every state an id is a key of the activation map if and only if
\* it is a key of the version map.
C11_Lockstep == DOMAIN activations = DOMAIN versions

\* C11 witness: an activation whose freeSpace erased images: the erased ids
\* are in neither map, the activated one is in both.
C11_Witness ==
    /\ lastOp.op = "requestedActivation"
    /\ evicted # <<>>
    /\ lastOp.id \in DOMAIN activations \cap DOMAIN versions
    /\ \A k \in 1..Len(evicted) :
          evicted[k] \notin DOMAIN activations \cup DOMAIN versions

\* C12 (as claimed): a request for Active on an activation that is Ready or
\* Failed runs the Activating transition (and stores the request), also when
\* the activation is Failed from an earlier attempt.
C12_RequestTriggersActivating ==
    \A id \in Registered :
        activations[id].activation \in {"Ready", "Failed"} =>
            \A tie \in TieOrders :
                requestedActivation(Updater, id, "Active", tie)
                    = [activation(Updater, id, "Activating", tie) EXCEPT
                          !.activations[id].requestedActivation = "Active"]

\* C13: a request for Active on an activation that is Activating or Active
\* changes nothing but the stored request: the state, the maps, the stores
\* and the volumes stay, nothing is evicted and no helper call (flash write,
\* erase) is made.
C13_RepeatedRequestIsNoOp ==
    \A id \in Registered :
        activations[id].activation \in {"Activating", "Active"} =>
            \A tie \in TieOrders :
                requestedActivation(Updater, id, "Active", tie)
                    = [Updater EXCEPT
                          !.activations[id].requestedActivation = "Active"]

\* C13 witness: such a request has just been served.
C13_Witness ==
    /\ lastOp.op = "requestedActivation"
    /\ lastOp.value = "Active"
    /\ lastOp.note = "repeat"
    /\ lastOp.id \in Registered
    /\ activations[lastOp.id].activation \in {"Activating", "Active"}
    /\ activations[lastOp.id].requestedActivation = "Active"
    /\ evicted = <<>>

\* C14 (as claimed): after every operation an activation holds a redundancy
\* priority if and only if it is Active.
C14_PriorityIffActive ==
    \A id \in Registered :
        HasPriority(Updater, id) <=> activations[id].activation = "Active"

\* C14 (amended): after every operation an activation that holds a redundancy
\* priority is Active (none that is Ready, Activating, Failed or Invalid holds
\* one), and an Active activation holds one unless it is a host BIOS image,
\* which onStateChangesBios makes Active without creating a priority.
C14_PriorityOnlyIfActive ==
    \A id \in Registered :
        /\ HasPriority(Updater, id) => activations[id].activation = "Active"
        /\ activations[id].activation = "Active"
             => \/ HasPriority(Updater, id)
                \/ hostBiosUpgrade /\ versions[id].purpose = "Host"

\* C14 witness: the flash unit of a host BIOS image has reported "done": the
\* image is Active without a priority, next to an Active image that holds one
\* and to an activation in another state that holds none.
C14_Witness ==
    /\ lastOp.op = "unitStateChange"
    /\ lastOp.value = "done"
    /\ lastOp.id \in Registered
    /\ versions[lastOp.id].purpose = "Host"
    /\ activations[lastOp.id].activation = "Active"
    /\ ~HasPriority(Updater, lastOp.id)
    /\ \E id \in Registered :
          activations[id].activation = "Active" /\ HasPriority(Updater, id)
    /\ \E id \in Registered :
          activations[id].activation \in {"Ready", "Failed"}
            /\ ~HasPriority(Updater, id)

\* C15: when a request starts the sequence for a version below the minimum
\* ship level, the activation ends Failed and nothing else happens: no helper
\* call is made (no erase by freeSpace, no flash write), nothing is evicted,
\* and the maps, the priorities of the other images, the persisted stores,
\* the boot target and the volumes are as before.
C15_MinimumShipLevelAborts ==
    \A id \in Registered :
        Triggers(id, "Active") /\ ~verify(versions[id].version) =>
            \A tie \in TieOrders :
                LET r == requestedActivation(Updater, id, "Active", tie)
                IN  /\ r = [Updater EXCEPT
                              !.activations[id].activation = "Failed",
                              !.activations[id].requestedActivation = "Active"]
                    /\ r.log = <<>>
                    /\ r.evicted = <<>>

\* C15 witness: such a request has just been served, the activation is
\* Failed, and freeSpace called for it would evict an image.
C15_Witness ==
    /\ lastOp.op = "requestedActivation"
    /\ lastOp.note = "msl"
    /\ lastOp.id \in Registered
    /\ ~verify(versions[lastOp.id].version)
    /\ activations[lastOp.id].activation = "Failed"
    /\ evicted = <<>>
    /\ freeSpace(Updater, lastOp.id).evicted # <<>>
    /\ \E id \in Registered \ {lastOp.id} : HasPriority(Updater, id)

\* C16: with signature verification built in, when a request starts the
\* sequence for an image whose signature does not verify, then in field mode
\* the activation ends Failed and nothing else happens (no helper call, so no
\* erase and no flash write, and nothing evicted), and outside field mode the
\* outcome is the one of the sequence from the minimum ship level check on,
\* which is the outcome for an image whose signature verifies.
C16_SignatureFailure ==
    signatureVerify =>
    \A id \in Registered :
        Triggers(id, "Active") /\ ~verifySignature(id) =>
            \A tie \in TieOrders :
                LET r == requestedActivation(Updater, id, "Active", tie)
                IN  IF fieldMode
                    THEN /\ r = [Updater EXCEPT
                                   !.activations[id].activation = "Failed",
                                   !.activations[id].requestedActivation =
                                       "Active"]
                         /\ r.log = <<>>
                         /\ r.evicted = <<>>
                    ELSE r = [startActivating(Updater, id, tie) EXCEPT
                                !.activations[id].requestedActivation =
                                    "Active"]

\* C16 witness: in field mode such a request has just been served, the
\* activation is Failed, and freeSpace called for it would evict an image.
C16_Witness ==
    /\ signatureVerify
    /\ fieldMode
    /\ lastOp.op = "requestedActivation"
    /\ lastOp.note = "unsigned"
    /\ lastOp.id \in Registered
    /\ ~verifySignature(lastOp.id)
    /\ activations[lastOp.id].activation = "Failed"
    /\ evicted = <<>>
    /\ freeSpace(Updater, lastOp.id).evicted # <<>>

\* C17: field mode is one-way. No step takes it from enabled to disabled, and
\* a write of the property while it is enabled changes nothing (the registry,
\* the stores, the boot target, the volumes and the mode stay, no systemd
\* unit is started, stopped or masked); a write of false is refused with
\* NotAllowed, a write of true raises no error.
C17_FieldModeOneWay ==
    [][fieldMode =>
         /\ fieldMode'
         /\ lastOp'.op = "fieldModeEnabled" /\ opCount' # opCount =>
              /\ UNCHANGED <<versions, activations, assocs, persistPriority,
                             persistPurpose, envPriority, bootTarget, volumes,
                             posted, stale, fieldMode>>
              /\ \A value \in BOOLEAN : fieldModeEnabled(value).units = <<>>
              /\ lastOp'.note =
                     (IF lastOp'.value = "false" THEN "NotAllowed" ELSE "none")
      ]_vars

\* C17 witness: a write of false has just been refused in field mode.
C17_Witness ==
    /\ fieldMode
    /\ lastOp.op = "fieldModeEnabled"
    /\ lastOp.value = "false"
    /\ lastOp.note = "NotAllowed"

\* C18: an upload notification for an id that is already registered changes
\* nothing, whatever version, purpose and validation result it carries: the
\* version and activation maps, with the state, the stored request, the
\* priority and the associations of the activation, the relations and the
\* stores are as before.
C18_DuplicateUploadIgnored ==
    \A id \in Registered, other \in Ids, valid \in BOOLEAN,
       purpose \in {"BMC", "System", "Host", "Other", "Unknown"} :
        createActivation(Updater, id, VersionString(other), purpose, valid)
            = Updater

\* C18 witness: a notification for an uploaded image that has since been
\* activated has just been served: the image is still Active, with its stored
\* request and its priority.
C18_Witness ==
    /\ lastOp.op = "registerImage"
    /\ lastOp.note = "none"
    /\ lastOp.id \in Registered \ {FunctionalId}
    /\ activations[lastOp.id].activation = "Active"
    /\ activations[lastOp.id].requestedActivation = "Active"
    /\ HasPriority(Updater, lastOp.id)

\* C19 (as claimed): a write of priority v to X while another Active image Y
\* holds v and no image holds v + 1 ends with X at v and Y at v + 1, in the
\* activations and in the persisted store, with every other priority as
\* before; for v = 0 the boot target is X.
C19_SetPriorityCascadesOnce ==
    \A X \in Holders : \A Y \in Holders \ {X} :
        LET v == activations[Y].redundancyPriority
        IN  /\ activations[Y].activation = "Active"
            /\ \A i \in Holders : activations[i].redundancyPriority # v + 1
            => \A tie \in TieOrders :
                 LET r == priority(Updater, X, v, tie)
                 IN  /\ r.activations[X].redundancyPriority = v
                     /\ r.activations[Y].redundancyPriority = v + 1
                     /\ r.persistPriority[X] = v
                     /\ r.persistPriority[Y] = v + 1
                     /\ \A i \in Registered \ {X, Y} :
                           /\ r.activations[i].redundancyPriority
                                = activations[i].redundancyPriority
                           /\ r.persistPriority[i] = persistPriority[i]
                     /\ v = 0 => r.bootTarget = X

\* The persisted priority / boot environment store of an updater: the
\* priority files, the priority entries of the U-Boot environment and the
\* boot target.
Store(u) ==
    [persistPriority |-> u.persistPriority,
     envPriority |-> u.envPriority,
     bootTarget |-> u.bootTarget]

\* The store after one logged call: each call is one write, and the calls
\* that are not on this store leave it alone.
ApplyWrite(store, entry) ==
    IF entry.op = "storePriority"
    THEN [store EXCEPT !.persistPriority[entry.id] = entry.value]
    ELSE IF entry.op = "removePersistDataDirectory"
    THEN [store EXCEPT !.persistPriority[entry.id] = NoPriority]
    ELSE IF entry.op = "setEntry"
    THEN [store EXCEPT !.envPriority[entry.id] = entry.value]
    ELSE IF entry.op = "clearEntry"
    THEN [store EXCEPT !.envPriority[entry.id] = NoPriority]
    ELSE IF entry.op = "updateUbootVersionId"
    THEN [store EXCEPT !.bootTarget = entry.id]
    ELSE store

\* The store after the first k calls of a log: what a crash after the k-th
\* call leaves behind.
RECURSIVE Replay(_, _, _)
Replay(store, log, k) ==
    IF k = 0 THEN store
    ELSE ApplyWrite(Replay(store, log, k - 1), log[k])

\* The store at every point of the operation that leads from the current
\* state to r is the store before the operation or the store after it.
CrashConsistent(r) ==
    \A k \in 0..Len(r.log) :
        Replay(Store(Updater), r.log, k) \in {Store(Updater), Store(r)}

\* C20 (as claimed): the persisted priority / boot environment store is crash
\* consistent: at every point between two writes of a priority write or of
\* an erase, its content is the outcome of a completed transition (the one
\* before the operation, or the operation's own), never a half-applied one.
C20_StoreCrashConsistent ==
    /\ \A X \in Holders, v \in PriorityInputs, tie \in TieOrders :
          CrashConsistent(priority(Updater, X, v, tie))
    /\ \A id \in Registered : CrashConsistent(erase(Updater, id))

\* C21: a JobRemoved signal changes a host BIOS activation only when the
\* activation is Activating and the unit is its own flash unit: "done" then
\* makes it Active and "failed" makes it Failed; a signal for any other unit,
\* or one that arrives while the activation is not Activating, leaves the
\* activation, the registry and the stores as they are, with no helper call.
C21_OnlyOwnUnitWhileActivating ==
    hostBiosUpgrade =>
    \A id \in Registered :
        versions[id].purpose = "Host" =>
            \A unit \in Units, result \in {"done", "failed"},
               tie \in TieOrders :
                LET r == unitStateChange(Updater, id, unit, result, tie)
                IN  IF /\ activations[id].activation = "Activating"
                       /\ unit = BiosServiceFile(id)
                    THEN /\ r.activations[id].activation =
                              (IF result = "done" THEN "Active" ELSE "Failed")
                         /\ DOMAIN r.activations = DOMAIN activations
                         /\ DOMAIN r.versions = DOMAIN versions
                    ELSE r = Updater

\* C21 witness: a signal for another unit has just reached a host BIOS
\* activation that is Activating, and it still is.
C21_Witness ==
    /\ hostBiosUpgrade
    /\ lastOp.op = "unitStateChange"
    /\ lastOp.note = "ignored"
    /\ lastOp.id \in Registered
    /\ versions[lastOp.id].purpose = "Host"
    /\ activations[lastOp.id].activation = "Activating"

\* C22: the erase of the uploaded host BIOS image is not done inside the
\* handler of its "done" signal: when the handler has returned the image is
\* still in both maps, Active, nothing has been evicted and the erase is
\* pending; and the pending erase is a later step that runs: an image whose
\* erase is pending is eventually out of the registry.
C22_EraseDeferred ==
    /\ [](\A id \in HostIds :
            /\ lastOp.op = "unitStateChange"
            /\ lastOp.id = id
            /\ lastOp.value = "done"
            /\ lastOp.note # "ignored"
            /\ id \in DOMAIN versions => versions[id].purpose = "Host"
            => /\ id \in DOMAIN activations
               /\ id \in DOMAIN versions
               /\ activations[id].activation = "Active"
               /\ id \in posted \ stale
               /\ evicted = <<>>)
    /\ \A id \in HostIds :
          (id \in posted \ stale /\ id \in Registered) ~> (id \notin Registered)

\* C22 witness: the pending erase of a host BIOS image has just run, as a
\* step of its own, and the image is out of both maps.
C22_Witness ==
    /\ hostBiosUpgrade
    /\ lastOp.op = "postedErase"
    /\ lastOp.note = "none"
    /\ lastOp.id \in HostIds
    /\ lastOp.id \notin DOMAIN activations \cup DOMAIN versions
    /\ lastOp.id \notin posted

\* Tuple order on Version structs: -1, 0 or 1 as a is before, equal to or
\* after b, by major, then minor, then rev.
TupleOrder(a, b) ==
    IF a = b THEN 0
    ELSE IF \E k \in 1..3 :
              /\ a[k] < b[k]
              /\ \A j \in 1..(k - 1) : a[j] = b[j]
    THEN -1
    ELSE 1

\* C23: compare orders (major, minor, rev) lexicographically: the value it has
\* returned for a and b is negative, zero or positive exactly as a is before,
\* equal to or after b in tuple order; so compare(v, v) = 0 and
\* compare(a, b) = -compare(b, a).
C23_CompareIsTupleOrder ==
    mslCall.op = "compare" /\ mslCall.out # <<>> =>
        LET a == mslCall.in[1]
            b == mslCall.in[2]
            rc == mslCall.out[1]
        IN  /\ rc = TupleOrder(a, b)
            /\ a = b => rc = 0
            /\ rc = -compare(b, a)

\* C23 witness: compare has returned -1 for two versions that differ only in
\* the revision.
C23_Witness ==
    /\ mslCall.op = "compare"
    /\ mslCall.out = <<-1>>
    /\ mslCall.in[1][1] = mslCall.in[2][1]
    /\ mslCall.in[1][2] = mslCall.in[2][2]
    /\ mslCall.in[1][3] < mslCall.in[2][3]

\* C24 (as claimed): verify returns for every candidate: true when no minimum
\* is configured, and otherwise false exactly when the parsed candidate is
\* before the parsed minimum in tuple order, a string without a match
\* counting as (0, 0, 0); no exception leaves it.
C24_VerifyTotal ==
    mslCall.op = "verify" /\ mslCall.out # <<>> =>
        LET msl == mslCall.in[1]
            versionManifest == mslCall.in[2]
            r == mslCall.out[1]
        IN  /\ ~r.thrown
            /\ msl = <<>> => r.rc
            /\ msl # <<>> =>
                 (~r.rc <=> TupleOrder(parse(versionManifest), parse(msl)) = -1)

\* C25: on the static layout a request that starts the sequence for a version
\* that meets the minimum ship level completes within the call: when it
\* returns the image is Active (not Activating), holds redundancy priority 0,
\* and its "active" and "updateable" associations are in the association
\* list.
C25_StaticCompletesInCall ==
    build.layout = "static" =>
    \A id \in Registered :
        Triggers(id, "Active") /\ verify(versions[id].version) =>
            \A tie \in TieOrders :
                LET r == requestedActivation(Updater, id, "Active", tie)
                IN  /\ id \in DOMAIN r.activations
                    /\ r.activations[id].activation = "Active"
                    /\ r.activations[id].redundancyPriority = 0
                    /\ InSeq(r.assocs, <<"active", id>>)
                    /\ InSeq(r.assocs, <<"updateable", id>>)

\* C25 witness: on the static layout a request has just run the whole
\* sequence for an uploaded image, which is Active at priority 0 with both
\* associations.
C25_Witness ==
    /\ build.layout = "static"
    /\ lastOp.op = "requestedActivation"
    /\ lastOp.note = "flashed"
    /\ lastOp.id \in Registered
    /\ activations[lastOp.id].activation = "Active"
    /\ activations[lastOp.id].redundancyPriority = 0
    /\ InSeq(assocs, <<"active", lastOp.id>>)
    /\ InSeq(assocs, <<"updateable", lastOp.id>>)

\* C26: after every operation an activation that is not Activating has no
\* progress object and no blocking guard, whether it got there by success or
\* by a failure.
C26_TrackerOnlyWhileActivating ==
    \A id \in Registered :
        activations[id].activation # "Activating" =>
            /\ activations[id].activationProgress = NoProgress
            /\ ~activations[id].activationBlocksTransition

\* C26 witness: the flash of an image that was Activating has just failed:
\* the image is Failed, without progress object and blocking guard.
C26_Witness ==
    /\ lastOp.op = "unitStateChange"
    /\ lastOp.value = "failed"
    /\ lastOp.note # "ignored"
    /\ lastOp.id \in Registered
    /\ activations[lastOp.id].activation = "Failed"
    /\ activations[lastOp.id].activationProgress = NoProgress
    /\ ~activations[lastOp.id].activationBlocksTransition

\* C27 (as claimed): when erase recomputes the boot target and no registered
\* image holds a priority, the recomputation does nothing: the boot target is
\* the one before and no call is made on the boot environment store.
C27_RecomputationWithoutPriorityIsNoOp ==
    \A id \in Ids :
        LET u1 == EraseActivation(Updater, id)
        IN  /\ ~ (/\ id \in DOMAIN versions
                  /\ isFunctional(Updater, id)
                  /\ build.maxAllowed > 1)
            /\ \A i \in DOMAIN u1.activations : ~HasPriority(u1, i)
            =>  /\ resetUbootEnvVars(u1).bootTarget = bootTarget
                /\ resetUbootEnvVars(u1).log = u1.log

\* The images freeSpace may erase for a caller: the Active or Failed ones
\* other than the caller and, with more than one slot, the functional one.
Candidates(caller) ==
    {i \in ActiveOrFailed(Updater) :
        /\ i # caller
        /\ ~ (isFunctional(Updater, i) /\ build.maxAllowed > 1)}

\* Image e is at most as preferred as image c: e is Failed, or both are
\* Active and the priority value of e is not below that of c.
LessPreferred(e, c) ==
    \/ activations[e].activation = "Failed"
    \/ /\ activations[e].activation = "Active"
       /\ activations[c].activation = "Active"
       /\ activations[e].redundancyPriority
            >= activations[c].redundancyPriority

\* C28: freeSpace erases the least preferred candidates and no more than
\* needed: in the order of erasure a Failed image never follows an Active
\* one and Active images come in descending priority value; every erased
\* image is at most as preferred as every candidate that is kept; each erasure
\* happens while the Active-or-Failed count is not below the maximum, and
\* freeSpace does not stop before the count is below it or the candidates are
\* used up; nothing is erased when the count is below the maximum on entry.
C28_EvictsLeastPreferredOnly ==
    \A caller \in FreeSpaceCallers :
        LET ev == freeSpace(Updater, caller).evicted
            count == Cardinality(ActiveOrFailed(Updater))
        IN  /\ \A k \in 1..Len(ev) : ev[k] \in Candidates(caller)
            /\ \A j, k \in 1..Len(ev) : j < k => LessPreferred(ev[j], ev[k])
            /\ \A k \in 1..Len(ev) :
                  \A c \in Candidates(caller) :
                      ~InSeq(ev, c) => LessPreferred(ev[k], c)
            /\ ev # <<>> => count - (Len(ev) - 1) >= build.maxAllowed
            /\ \/ count - Len(ev) < build.maxAllowed
               \/ \A c \in Candidates(caller) : InSeq(ev, c)
            /\ count < build.maxAllowed => ev = <<>>

\* The key freeSpace sorts image i by, read off the registry: its priority
\* value when it is Active and holds one, the sentinel otherwise.
EvictionKey(i) ==
    IF activations[i].activation = "Active" /\ HasPriority(Updater, i)
    THEN activations[i].redundancyPriority
    ELSE FailedSortPriority

\* C28 (amended): as above, with the preference read off the eviction key:
\* the sentinel is carried by Failed images and by Active images that hold no
\* priority, which are erased before every Active image that holds one; among
\* equal keys the larger id goes first.
C28_EvictsLargestKeysOnly ==
    \A caller \in FreeSpaceCallers :
        LET ev == freeSpace(Updater, caller).evicted
            count == Cardinality(ActiveOrFailed(Updater))
            Before(e, c) ==
                \/ EvictionKey(e) > EvictionKey(c)
                \/ EvictionKey(e) = EvictionKey(c) /\ e > c
        IN  /\ \A k \in 1..Len(ev) : ev[k] \in Candidates(caller)
            /\ \A j, k \in 1..Len(ev) : j < k => Before(ev[j], ev[k])
            /\ \A k \in 1..Len(ev) :
                  \A c \in Candidates(caller) :
                      ~InSeq(ev, c) => Before(ev[k], c)
            /\ ev # <<>> => count - (Len(ev) - 1) >= build.maxAllowed
            /\ \/ count - Len(ev) < build.maxAllowed
               \/ \A c \in Candidates(caller) : InSeq(ev, c)
            /\ count < build.maxAllowed => ev = <<>>

\* C28 witness: freeSpace for an image about to be activated first erases an
\* Active image that holds no priority and then an Active image that holds one.
C28_Witness ==
    \E caller \in FreeSpaceCallers :
        LET ev == freeSpace(Updater, caller).evicted
        IN  /\ Len(ev) = 2
            /\ activations[ev[1]].activation = "Active"
            /\ ~HasPriority(Updater, ev[1])
            /\ activations[ev[2]].activation = "Active"
            /\ HasPriority(Updater, ev[2])

\* The activations of updater record u that are Active.
ActiveImages(u) ==
    {i \in DOMAIN u.activations : u.activations[i].activation = "Active"}

\* C29: the number of Active images never exceeds the configured maximum:
\* not in any state reached, and not after the flash writes of two images
\* that are Activating at the same time have both completed.
C29_CapacityBound ==
    /\ Cardinality(ActiveImages(Updater)) <= build.maxAllowed
    /\ \A a \in DOMAIN activations : \A b \in DOMAIN activations \ {a} :
          /\ activations[a].activation = "Activating"
          /\ activations[b].activation = "Activating"
          /\ OwnUnit(a) = FlashWriteUnit(a)
          /\ OwnUnit(b) = FlashWriteUnit(b)
          => \A tie \in TieOrders :
                LET u1 == unitStateChange(Updater, a, FlashWriteUnit(a),
                                          "done", tie)
                    u2 == unitStateChange(u1, b, FlashWriteUnit(b),
                                          "done", tie)
                IN  Cardinality(ActiveImages(u2)) <= build.maxAllowed

\* C30: while an erase posted by a host-firmware "done" notification is
\* pending, the Activation it refers to is still in the registry and is the
\* object that posted it, so the entry is present when the deferred step runs.
C30_PendingEntryPresent ==
    \A id \in posted : id \in DOMAIN activations /\ id \notin stale

\* C31: an activation that is Invalid stays Invalid for as long as it is
\* registered, and a write of RequestedActivation to it changes nothing but
\* the stored request: nothing is evicted, no volume is written and no helper
\* call is made on its behalf.
C31_InvalidNeverActivates ==
    [][\A id \in DOMAIN activations :
          activations[id].activation = "Invalid" =>
              /\ \A value \in RequestedValues : \A tie \in TieOrders :
                    requestedActivation(Updater, id, value, tie)
                        = [Updater EXCEPT
                              !.activations[id].requestedActivation = value]
              /\ id \in DOMAIN activations' =>
                    activations'[id].activation = "Invalid"]_vars

\* C31 witness: a request for Active has just been written to an Invalid
\* activation.
C31_Witness ==
    /\ lastOp.op = "requestedActivation"
    /\ lastOp.value = "Active"
    /\ lastOp.id \in DOMAIN activations
    /\ activations[lastOp.id].activation = "Invalid"
    /\ activations[lastOp.id].requestedActivation = "Active"
    /\ evicted = <<>>

\* C32: a write of a priority to image X changes the priority of another
\* image only by raising it by 1 within [0, 255]: a bumped image ends with its
\* old value plus 1, never with a lower value, and never wraps from 255 to 0.
\* The written values are the held ones, the only values that collide.
C32_CascadeOnlyRaises ==
    \A X \in Holders : \A Y \in Holders \ {X} :
        \A value \in {activations[i].redundancyPriority : i \in Holders} :
            \A tie \in TieOrders :
                LET old == activations[Y].redundancyPriority
                    new == priority(Updater, X, value, tie)
                               .activations[Y].redundancyPriority
                IN  new # old =>
                        /\ new = old + 1
                        /\ new \in 0..MaxPriority

====
